---- MODULE Spec2Model ----
(***************************************************************************)
(* Model of datacube/testutils/io.py: write_gtiff, rio_geobox,             *)
(* dc_crs_from_rio, rio_slurp_read, rio_slurp_reproject and rio_slurp.     *)
(*                                                                         *)
(* The raster backend (rasterio / GDAL), numpy and pathlib are external;   *)
(* they are modelled by what the calls in io.py rely on: a file system     *)
(* mapping paths to raster files, a dataset profile (meta), band reads,    *)
(* np.full with its dtype conversion, and a reprojection that overwrites   *)
(* only the pixels of the source footprint.                                *)
(***************************************************************************)
EXTENDS Integers, Sequences, FiniteSets, TLC

VARIABLES
    fs,      \* file system: path -> <<>> (absent) or <<file>>
    call,    \* the call taken last: function name and arguments
    ops,     \* file-system / backend operations performed by that call, in order
    result   \* its outcome: a return value or the exception raised

vars == <<fs, call, ops, result>>

----------------------------------------------------------------------------
(* Bounds of the model *)

MaxDim == 2      \* largest height / width of an input array
MaxBands == 2    \* largest band count of a 3-D input array

----------------------------------------------------------------------------
(* Python values: every dynamically typed argument carries its type *)

Py(t, v) == [type |-> t, val |-> v]
PyNone == Py("NoneType", <<>>)
PyInt(n) == Py("int", n)
PyStr(s) == Py("str", s)
PyTuple(s) == Py("tuple", s)
PyGeoBox(g) == Py("GeoBox", g)
IsNone(x) == x.type = "NoneType"

Min(a, b) == IF a <= b THEN a ELSE b

\* dict.update(u): the keys of u win
Update(d, u) == u @@ d

EmptyDict == <<>>

----------------------------------------------------------------------------
(* numpy arrays: shape, dtype name and the values in row-major order *)

RECURSIVE Prod(_)
Prod(s) == IF Len(s) = 0 THEN 1 ELSE Head(s) * Prod(Tail(s))

Representable(v, dtype) ==
    IF dtype = "uint8" THEN v \in 0..255 ELSE v \in (-32768)..32767

\* conversion of an integer to a dtype as numpy's unsafe cast does it (wraps)
Cast(v, dtype) ==
    IF dtype = "uint8" THEN v % 256 ELSE ((v + 32768) % 65536) - 32768

NDArray(shape, dtype, first) ==
    [shape |-> shape, dtype |-> dtype,
     vals |-> [i \in 1..Prod(shape) |-> Cast(first + i, dtype)]]

ndim(a) == Len(a.shape)

\* pix[k] of a 3-D array: band k as a 2-D array
BandOf(a, k) ==
    LET n == a.shape[2] * a.shape[3]
    IN [shape |-> <<a.shape[2], a.shape[3]>>, dtype |-> a.dtype,
        vals |-> SubSeq(a.vals, (k - 1) * n + 1, k * n)]

\* np.full(shape, fill_value, dtype)
np_full(shape, fill_value, dtype) ==
    [shape |-> shape, dtype |-> dtype,
     vals |-> [i \in 1..Prod(shape) |-> Cast(fill_value, dtype)]]

----------------------------------------------------------------------------
(* Coordinate reference systems and grids *)

WktMercator == "PROJCS[WGS 84 / Pseudo-Mercator]"
WktCustom == "PROJCS[custom sinusoidal]"

\* the backend's CRS object for a CRS given as text
RioCRS(s) ==
    IF s = "epsg:3857"
    THEN [is_epsg_code |-> TRUE, epsg |-> 3857, wkt |-> WktMercator]
    ELSE IF s = "epsg:4326"
    THEN [is_epsg_code |-> TRUE, epsg |-> 4326, wkt |-> "GEOGCS[WGS 84]"]
    ELSE [is_epsg_code |-> FALSE, epsg |-> 0, wkt |-> s]

\* faulty variant: the EPSG form is never produced
dc_crs_from_rio_wkt_always(crs) == crs.wkt

dc_crs_from_rio(crs) ==
    IF crs.is_epsg_code
    THEN "epsg:" \o ToString(crs.epsg)
    ELSE crs.wkt

Affine(a, b, c, d, e, f) == [a |-> a, b |-> b, c |-> c, d |-> d, e |-> e, f |-> f]

GeoBox(w, h, transform, crs) ==
    [width |-> w, height |-> h, transform |-> transform, crs |-> crs]

GeoBoxShape(g) == <<g.height, g.width>>

\* faulty variant: width and height passed to GeoBox in the wrong order
rio_geobox_src_grid_swapped(meta) ==
    IF "crs" \notin DOMAIN meta \/ "transform" \notin DOMAIN meta
    THEN PyNone
    ELSE PyGeoBox(GeoBox(meta.height, meta.width, meta.transform,
                         dc_crs_from_rio(meta.crs)))

rio_geobox(meta) ==
    IF "crs" \notin DOMAIN meta \/ "transform" \notin DOMAIN meta
    THEN PyNone
    ELSE PyGeoBox(GeoBox(meta.width, meta.height, meta.transform,
                         dc_crs_from_rio(meta.crs)))

----------------------------------------------------------------------------
(* The backend's files *)

Paths == {"a.tif"}

Absent == <<>>
Exists(f, fname) == Len(f[fname]) = 1
FileAt(f, fname) == f[fname][1]

\* the profile of an opened dataset (src.meta / dst.meta)
DatasetMeta(file) ==
    [driver |-> "GTiff",
     dtype |-> file.opts.dtype,
     nodata |-> IF "nodata" \in DOMAIN file.opts THEN file.opts.nodata ELSE PyNone,
     width |-> file.opts.width,
     height |-> file.opts.height,
     count |-> file.opts.count,
     crs |-> RioCRS(file.opts.crs),
     transform |-> file.opts.transform]

Raise(exc) == [kind |-> "raise", exc |-> exc]
Return(v) == [kind |-> "return", value |-> v]

----------------------------------------------------------------------------
(* write_gtiff *)

\* the options write_gtiff hands to rasterio.open(..., 'w', driver='GTiff', **rio_opts)
\* faulty variant: the block size is not clamped to the image extent
WriteOptsTilingUnclamped(pix, h, w, nbands, crs, A, nodata, blocksize, extra_rio_opts) ==
    LET base == [width |-> w, height |-> h, count |-> nbands,
                 dtype |-> pix.dtype, crs |-> crs, transform |-> A,
                 predictor |-> 2, compress |-> "DEFLATE"]
        tiled == IF IsNone(blocksize) THEN base
                 ELSE Update(base, [tiled |-> TRUE,
                                    blockxsize |-> blocksize.val,
                                    blockysize |-> blocksize.val])
        withNodata == IF IsNone(nodata) THEN tiled
                      ELSE Update(tiled, [nodata |-> nodata])
    IN Update(withNodata, extra_rio_opts)

WriteOpts(pix, h, w, nbands, crs, A, nodata, blocksize, extra_rio_opts) ==
    LET base == [width |-> w, height |-> h, count |-> nbands,
                 dtype |-> pix.dtype, crs |-> crs, transform |-> A,
                 predictor |-> 2, compress |-> "DEFLATE"]
        tiled == IF IsNone(blocksize) THEN base
                 ELSE Update(base, [tiled |-> TRUE,
                                    blockxsize |-> Min(blocksize.val, w),
                                    blockysize |-> Min(blocksize.val, h)])
        withNodata == IF IsNone(nodata) THEN tiled
                      ELSE Update(tiled, [nodata |-> nodata])
    IN Update(withNodata, extra_rio_opts)

\* dst.write(pix, band): the bands stored, in the file's dtype
WrittenBands(pix, nbands, dtype) ==
    LET conv(a) == [i \in 1..Len(a.vals) |-> Cast(a.vals[i], dtype)]
    IN IF ndim(pix) = 2 THEN <<conv(pix)>>
       ELSE [k \in 1..nbands |-> conv(BandOf(pix, k))]

\* the backend accepts the write only if the array fits the dataset it opened
FitsDataset(opts, h, w, nbands) ==
    opts.width = w /\ opts.height = h /\ opts.count = nbands

OpExists(fname) == [op |-> "exists", path |-> fname]
OpUnlink(fname) == [op |-> "unlink", path |-> fname]
OpOpenW(fname, opts) == [op |-> "open_w", path |-> fname, opts |-> opts]
OpWrite(fname) == [op |-> "write", path |-> fname]
OpOpenR(fname) == [op |-> "open_r", path |-> fname]

\* the band layout of the input array; ok is FALSE where the code raises ValueError
\* faulty variant: the final branch accepts every other rank instead of raising
PixDimsAnyRank(pix) ==
    LET nd == ndim(pix)
    IN IF nd = 2
       THEN [ok |-> TRUE, h |-> pix.shape[1], w |-> pix.shape[2], nbands |-> 1]
       ELSE [ok |-> TRUE, h |-> 1, w |-> pix.shape[nd], nbands |-> 1]

PixDims(pix) ==
    IF ndim(pix) = 2
    THEN [ok |-> TRUE, h |-> pix.shape[1], w |-> pix.shape[2], nbands |-> 1]
    ELSE IF ndim(pix) = 3
    THEN [ok |-> TRUE, h |-> pix.shape[2], w |-> pix.shape[3],
          nbands |-> pix.shape[1]]
    ELSE [ok |-> FALSE, h |-> 0, w |-> 0, nbands |-> 0]

\* the existence check, the unlink and the refusal
\* faulty variant: an existing file is never refused
ClearTargetAlwaysProceeds(f, fname, overwrite) ==
    [ok |-> TRUE, fs |-> f, ops |-> <<OpExists(fname)>>]

\* faulty variant: overwrite=True does not unlink the old file
ClearTargetKeepsOldFile(f, fname, overwrite) ==
    IF Exists(f, fname) /\ ~overwrite
    THEN [ok |-> FALSE, fs |-> f, ops |-> <<OpExists(fname)>>]
    ELSE [ok |-> TRUE, fs |-> f, ops |-> <<OpExists(fname)>>]

ClearTarget(f, fname, overwrite) ==
    IF Exists(f, fname)
    THEN IF overwrite
         THEN [ok |-> TRUE, fs |-> [f EXCEPT ![fname] = Absent],
               ops |-> <<OpExists(fname), OpUnlink(fname)>>]
         ELSE [ok |-> FALSE, fs |-> f, ops |-> <<OpExists(fname)>>]
    ELSE [ok |-> TRUE, fs |-> f, ops |-> <<OpExists(fname)>>]

\* the backend creates the dataset, takes the bands and closes it.
\* io is what the backend does: "ok", "open_fails" or "write_fails".  A dataset
\* opened for writing replaces whatever the path held; a failed open leaves the
\* path as it found it.
BackendWrite(f, fname, rio_opts, pix, dims, io) ==
    LET opened == OpOpenW(fname, rio_opts)
        partial == [opts |-> rio_opts, bands |-> <<>>, complete |-> FALSE]
        whole == [opts |-> rio_opts,
                  bands |-> WrittenBands(pix, dims.nbands, rio_opts.dtype),
                  complete |-> TRUE]
    IN IF io = "open_fails"
       THEN [ok |-> FALSE, fs |-> f, ops |-> <<opened>>]
       ELSE IF io = "write_fails"
               \/ ~FitsDataset(rio_opts, dims.h, dims.w, dims.nbands)
       THEN [ok |-> FALSE, fs |-> [f EXCEPT ![fname] = <<partial>>],
             ops |-> <<opened, OpWrite(fname)>>]
       ELSE [ok |-> TRUE, fs |-> [f EXCEPT ![fname] = <<whole>>],
             ops |-> <<opened, OpWrite(fname)>>]

write_gtiff(f, fname, pix, crs, resolution, offset, nodata, overwrite, blocksize, extra_rio_opts, io) ==
    LET dims == PixDims(pix)
        target == ClearTarget(f, fname, overwrite)
        A == Affine(resolution[1], 0, offset[1], 0, resolution[2], offset[2])
        rio_opts == WriteOpts(pix, dims.h, dims.w, dims.nbands, crs, A, nodata,
                              blocksize, extra_rio_opts)
        dst == BackendWrite(target.fs, fname, rio_opts, pix, dims, io)
        meta == DatasetMeta(FileAt(dst.fs, fname))
    IN IF ~dims.ok
       THEN [fs |-> f, ops |-> <<>>, result |-> Raise("ValueError")]
       ELSE IF ~target.ok
       THEN [fs |-> target.fs, ops |-> target.ops,
             result |-> Raise("IOError: File exists")]
       ELSE IF ~dst.ok
       THEN [fs |-> dst.fs, ops |-> target.ops \o dst.ops,
             result |-> Raise("RasterioIOError")]
       ELSE [fs |-> dst.fs, ops |-> target.ops \o dst.ops,
             result |-> Return([meta |-> Update(meta, [gbox |-> rio_geobox(meta),
                                                      path |-> fname])])]

----------------------------------------------------------------------------
(* Reading *)

\* rasterio.open(str(fname), 'r') succeeds on a complete raster file only
Readable(f, fname) == Exists(f, fname) /\ FileAt(f, fname).complete

\* keywords DatasetReader.read accepts beside the band indexes
ReadKeywords == {"out_shape", "masked", "window"}

\* one band of the file as a 2-D array, resampled (nearest) when out_shape is given
BandArray(file, k, kw) ==
    LET h == file.opts.height
        w == file.opts.width
        band == file.bands[k]
        oh == IF "out_shape" \in DOMAIN kw THEN kw.out_shape.val[1] ELSE h
        ow == IF "out_shape" \in DOMAIN kw THEN kw.out_shape.val[2] ELSE w
        at(i) == LET r == (i - 1) \div ow
                     c == (i - 1) % ow
                 IN band[((r * h) \div oh) * w + ((c * w) \div ow) + 1]
    IN [shape |-> <<oh, ow>>, dtype |-> file.opts.dtype,
        vals |-> [i \in 1..(oh * ow) |-> at(i)]]

RECURSIVE Concat(_)
Concat(ss) == IF Len(ss) = 0 THEN <<>> ELSE Head(ss) \o Concat(Tail(ss))

\* src.read(**kw): all bands stacked, 3-D
ReadAllBands(file, kw) ==
    LET bands == [k \in 1..file.opts.count |-> BandArray(file, k, kw)]
    IN [shape |-> <<file.opts.count>> \o bands[1].shape,
        dtype |-> file.opts.dtype,
        vals |-> Concat([k \in 1..file.opts.count |-> bands[k].vals])]

\* band 1 alone for a single-band file, else all bands
\* faulty variant: read() without a band index whatever the band count
ReadDataAlwaysStacked(file, kw) == ReadAllBands(file, kw)

ReadData(file, kw) ==
    IF file.opts.count = 1 THEN BandArray(file, 1, kw) ELSE ReadAllBands(file, kw)

rio_slurp_read(f, fname, out_shape, kw) ==
    LET kw2 == IF ~IsNone(out_shape) THEN Update(kw, [out_shape |-> out_shape])
               ELSE kw
        src == FileAt(f, fname)
        meta == DatasetMeta(src)
    IN IF ~Readable(f, fname)
       THEN [ops |-> <<OpOpenR(fname)>>, result |-> Raise("RasterioIOError")]
       ELSE IF ~(DOMAIN kw2 \subseteq ReadKeywords)
       THEN [ops |-> <<OpOpenR(fname)>>, result |-> Raise("TypeError")]
       ELSE [ops |-> <<OpOpenR(fname)>>,
             result |-> Return([data |-> ReadData(src, kw2),
                                meta |-> Update(meta, [gbox |-> rio_geobox(meta),
                                                       path |-> fname])])]

----------------------------------------------------------------------------
(* Reading with reprojection *)

\* the fill value: dst_nodata, else the source's nodata, else 0
\* faulty variant: truthiness tests instead of "is None", so that 0 counts as missing
ResolveNodataFalsy(dst_nodata, src_nodata) ==
    IF ~IsNone(dst_nodata) /\ dst_nodata.val # 0 THEN dst_nodata.val
    ELSE IF ~IsNone(src_nodata) /\ src_nodata.val # 0 THEN src_nodata.val
    ELSE 0

ResolveNodata(dst_nodata, src_nodata) ==
    IF ~IsNone(dst_nodata) THEN dst_nodata.val
    ELSE IF ~IsNone(src_nodata) THEN src_nodata.val
    ELSE 0

\* the output dtype: the caller's, else the source's
ResolveDType(dtype, src) == IF IsNone(dtype) THEN src.opts.dtype ELSE dtype.val

\* the destination array before reprojection
\* faulty variant: the destination array is allocated but not filled with the nodata value
PrefillEmpty(shape, fill_value, dtype) ==
    [shape |-> shape, dtype |-> dtype, vals |-> [i \in 1..Prod(shape) |-> 0]]

Prefill(shape, fill_value, dtype) == np_full(shape, fill_value, dtype)

OpNpFull(shape, fill_value, dtype) ==
    [op |-> "np_full", shape |-> shape, fill_value |-> fill_value, dtype |-> dtype]
OpReproject(dst_nodata, gbox, footprint) ==
    [op |-> "reproject", dst_nodata |-> dst_nodata,
     dst_transform |-> gbox.transform, dst_crs |-> gbox.crs,
     footprint |-> footprint]

\* the backend writes the pixels of the source footprint (a set of
\* indexes into the destination) and leaves every other pixel as it found it
BackendReproject(src, pix, footprint) ==
    LET band == src.bands[1]
    IN [pix EXCEPT !.vals =
          [i \in 1..Len(pix.vals) |->
             IF i \in footprint
             THEN Cast(band[((i - 1) % Len(band)) + 1], pix.dtype)
             ELSE pix.vals[i]]]

\* npmode: what np.full does with a fill value its dtype cannot hold:
\* "wrap" (the conversion wraps around) or "raise" (OverflowError)
rio_slurp_reproject(f, fname, gbox, dtype, dst_nodata, kw, footprint, npmode) ==
    LET src == FileAt(f, fname)
        meta == DatasetMeta(src)
        dtype1 == ResolveDType(dtype, src)
        nodata1 == ResolveNodata(dst_nodata, meta.nodata)
        shape == GeoBoxShape(gbox.val)
        pix == Prefill(shape, nodata1, dtype1)
        ops1 == <<OpOpenR(fname)>>
        ops2 == Append(ops1, OpNpFull(shape, nodata1, dtype1))
    IN IF ~Readable(f, fname)
       THEN [ops |-> ops1, result |-> Raise("RasterioIOError")]
       ELSE IF gbox.type # "GeoBox"
       THEN [ops |-> ops1, result |-> Raise("AttributeError")]
       ELSE IF ~Representable(nodata1, dtype1) /\ npmode = "raise"
       THEN [ops |-> ops2, result |-> Raise("OverflowError")]
       ELSE [ops |-> Append(ops2, OpReproject(nodata1, gbox.val, footprint)),
             result |-> Return(
                [data |-> BackendReproject(src, pix, footprint),
                 meta |-> Update(meta, [src_gbox |-> rio_geobox(meta),
                                        path |-> fname,
                                        gbox |-> gbox])])]

----------------------------------------------------------------------------
(* rio_slurp *)

\* Python's binding of positional and keyword arguments to the parameters
\* `names` (the first `required` of them mandatory) of a callee taking **kw
Bind(names, required, args, kw) ==
    LET n == Len(names)
        given(i) == i <= Len(args) \/ names[i] \in DOMAIN kw
        val(i) == IF i <= Len(args) THEN args[i]
                  ELSE IF names[i] \in DOMAIN kw THEN kw[names[i]]
                  ELSE PyNone
        named == {names[i] : i \in 1..n}
    IN [ok |-> /\ Len(args) <= n
               /\ \A i \in 1..Min(Len(args), n) : names[i] \notin DOMAIN kw
               /\ \A i \in 1..required : given(i),
        val |-> [i \in 1..n |-> val(i)],
        rest |-> [k \in (DOMAIN kw) \ named |-> kw[k]]]

\* which reader the call goes to
\* faulty variant: the gbox keyword is not looked at
DispatchOnPositionalOnly(args, kw) ==
    IF Len(args) > 0 /\ args[1].type = "GeoBox"
    THEN "rio_slurp_reproject" ELSE "rio_slurp_read"

Dispatch(args, kw) ==
    IF Len(args) = 0
    THEN IF "gbox" \in DOMAIN kw THEN "rio_slurp_reproject" ELSE "rio_slurp_read"
    ELSE IF args[1].type = "GeoBox" THEN "rio_slurp_reproject"
         ELSE "rio_slurp_read"

OpCall(fn) == [op |-> "call", fn |-> fn]

rio_slurp(f, fname, args, kw, footprint, npmode) ==
    LET target == Dispatch(args, kw)
        b == IF target = "rio_slurp_reproject"
             THEN Bind(<<"gbox", "dtype", "dst_nodata">>, 1, args, kw)
             ELSE Bind(<<"out_shape">>, 0, args, kw)
        r == IF target = "rio_slurp_reproject"
             THEN rio_slurp_reproject(f, fname, b.val[1], b.val[2], b.val[3],
                                      b.rest, footprint, npmode)
             ELSE rio_slurp_read(f, fname, b.val[1], b.rest)
    IN IF ~b.ok
       THEN [ops |-> <<OpCall(target)>>, result |-> Raise("TypeError")]
       ELSE [ops |-> <<OpCall(target)>> \o r.ops, result |-> r.result]

----------------------------------------------------------------------------
(* Inputs *)

Shapes2D == {<<h, w>> : h \in 1..MaxDim, w \in 1..MaxDim}
Shapes3D == {<<b, 1, MaxDim>> : b \in 1..MaxBands}
ShapesOther == {<<MaxDim>>, <<1, 1, 1, MaxDim>>}

Arrays == {NDArray(sh, "uint8", 0) : sh \in Shapes2D \cup Shapes3D \cup ShapesOther}
          \cup {NDArray(sh, "int16", 300) : sh \in Shapes2D}

DefaultCrs == "epsg:3857"
DefaultResolution == <<10, -10>>
DefaultOffset == <<0, 0>>

ExtraOpts == {EmptyDict, [tiled |-> FALSE], [blockxsize |-> 1], [width |-> 1]}
BlockSizes == {PyNone, PyInt(1), PyInt(512)}

WriteArg(pix, crs, offset, nodata, blocksize, extra) ==
    [pix |-> pix, crs |-> crs, resolution |-> DefaultResolution,
     offset |-> offset, nodata |-> nodata, blocksize |-> blocksize,
     extra_rio_opts |-> extra]

\* arrays of every rank, shape and dtype; a nodata value; a CRS without EPSG code
WriteArgsContent ==
    {WriteArg(pix, DefaultCrs, DefaultOffset, PyNone, PyNone, EmptyDict) :
        pix \in Arrays}
    \cup {WriteArg(NDArray(<<1, MaxDim>>, "uint8", 0), DefaultCrs, DefaultOffset,
                   PyInt(255), PyNone, EmptyDict),
          WriteArg(NDArray(<<1, MaxDim>>, "uint8", 0), WktCustom, DefaultOffset,
                   PyNone, PyNone, EmptyDict)}

\* tiling and passthrough options varied
WriteArgsTiling ==
    {WriteArg(NDArray(sh, "uint8", 0), DefaultCrs, <<5, 5>>, PyNone, bs, extra) :
        sh \in {<<1, MaxDim>>, <<MaxBands, MaxDim, 1>>},
        bs \in BlockSizes, extra \in ExtraOpts}

WriteArgs == WriteArgsContent \cup WriteArgsTiling

\* the files the readers are exercised on
SourceArrays ==
    {NDArray(<<1, 1>>, "uint8", 0), NDArray(<<1, MaxDim>>, "int16", 300),
     NDArray(<<MaxBands, 1, MaxDim>>, "uint8", 0), NDArray(<<MaxDim>>, "uint8", 0)}

WriteArgsSources ==
    {WriteArg(pix, crs, DefaultOffset, nodata, PyNone, EmptyDict) :
        pix \in SourceArrays, crs \in {DefaultCrs, WktCustom},
        nodata \in {PyNone, PyInt(255)}}

BackendIO == {"ok", "open_fails", "write_fails"}
NpModes == {"wrap", "raise"}

GridSame == GeoBox(1, 1, Affine(10, 0, 0, 0, -10, 0), "epsg:3857")
GridOther == GeoBox(MaxDim, 1, Affine(20, 0, 5, 0, -20, 5), "epsg:4326")

GridArgs == {PyGeoBox(GridSame), PyGeoBox(GridOther), PyNone}
DTypeArgs == {PyNone, PyStr("uint8"), PyStr("int16")}
NodataArgs == {PyNone, PyInt(0), PyInt(-9999)}

Footprints(gbox) ==
    IF gbox.type = "GeoBox" THEN SUBSET (1..Prod(GeoBoxShape(gbox.val))) ELSE {{}}

SlurpArgs == {<<>>, <<PyGeoBox(GridSame)>>, <<PyTuple(<<1, 1>>)>>,
              <<PyGeoBox(GridOther), PyStr("int16")>>}
SlurpKw == {EmptyDict, [gbox |-> PyGeoBox(GridSame)], [gbox |-> PyNone],
            [dst_nodata |-> PyInt(0)], [out_shape |-> PyTuple(<<1, 1>>)]}

\* the grid argument a rio_slurp call carries, if any
SlurpGrid(args, kw) ==
    IF Len(args) > 0 /\ args[1].type = "GeoBox" THEN args[1]
    ELSE IF "gbox" \in DOMAIN kw THEN kw.gbox ELSE PyNone

----------------------------------------------------------------------------
(* The state machine: one action per public function, one step per call *)

Init ==
    /\ fs = [p \in Paths |-> Absent]
    /\ call = [fn |-> "none"]
    /\ ops = <<>>
    /\ result = [kind |-> "none"]

CallWriteGtiff(argset) ==
    \E fname \in Paths, a \in argset, overwrite \in BOOLEAN, io \in BackendIO :
        LET r == write_gtiff(fs, fname, a.pix, a.crs, a.resolution, a.offset,
                             a.nodata, overwrite, a.blocksize,
                             a.extra_rio_opts, io)
        IN /\ fs' = r.fs
           /\ ops' = r.ops
           /\ result' = r.result
           /\ call' = [fn |-> "write_gtiff", fname |-> fname, pix |-> a.pix,
                       crs |-> a.crs, resolution |-> a.resolution,
                       offset |-> a.offset, nodata |-> a.nodata,
                       overwrite |-> overwrite, blocksize |-> a.blocksize,
                       extra_rio_opts |-> a.extra_rio_opts]

CallRioSlurpRead ==
    \E fname \in Paths, out_shape \in {PyNone, PyTuple(<<1, 1>>)},
       kw \in {EmptyDict, [masked |-> PyNone]} :
        LET r == rio_slurp_read(fs, fname, out_shape, kw)
        IN /\ ops' = r.ops
           /\ result' = r.result
           /\ call' = [fn |-> "rio_slurp_read", fname |-> fname,
                       out_shape |-> out_shape, kw |-> kw]
           /\ UNCHANGED fs

CallRioSlurpReproject ==
    \E fname \in Paths, gbox \in GridArgs, dtype \in DTypeArgs,
       dst_nodata \in NodataArgs, npmode \in NpModes :
      \E footprint \in Footprints(gbox) :
        LET r == rio_slurp_reproject(fs, fname, gbox, dtype, dst_nodata,
                                     EmptyDict, footprint, npmode)
        IN /\ ops' = r.ops
           /\ result' = r.result
           /\ call' = [fn |-> "rio_slurp_reproject", fname |-> fname,
                       gbox |-> gbox, dtype |-> dtype,
                       dst_nodata |-> dst_nodata]
           /\ UNCHANGED fs

CallRioSlurp ==
    \E fname \in Paths, args \in SlurpArgs, kw \in SlurpKw, npmode \in NpModes :
      \E footprint \in Footprints(SlurpGrid(args, kw)) :
        LET r == rio_slurp(fs, fname, args, kw, footprint, npmode)
        IN /\ ops' = r.ops
           /\ result' = r.result
           /\ call' = [fn |-> "rio_slurp", fname |-> fname, args |-> args,
                       kw |-> kw]
           /\ UNCHANGED fs

\* rio_geobox on the profile of a file, with any of the georeferencing keys missing
CallRioGeobox ==
    \E fname \in Paths, missing \in SUBSET {"crs", "transform"} :
        /\ Readable(fs, fname)
        /\ LET full == DatasetMeta(FileAt(fs, fname))
               meta == [k \in (DOMAIN full) \ missing |-> full[k]]
           IN /\ result' = Return(rio_geobox(meta))
              /\ call' = [fn |-> "rio_geobox", meta |-> meta]
        /\ ops' = <<>>
        /\ UNCHANGED fs

\* every public function, on a few source files
Next ==
    \/ CallWriteGtiff(WriteArgsSources)
    \/ CallRioSlurpRead
    \/ CallRioSlurpReproject
    \/ CallRioSlurp
    \/ CallRioGeobox

Spec == Init /\ [][Next]_vars

\* the writer on every input, and the plain reader
NextWrite ==
    \/ CallWriteGtiff(WriteArgs)
    \/ CallRioSlurpRead

SpecWrite == Init /\ [][NextWrite]_vars

----------------------------------------------------------------------------
(* Properties of write_gtiff *)

OpsNamed(log, name) == {i \in 1..Len(log) : log[i].op = name}

IsWrite(c) == c.fn = "write_gtiff"
ValidRank(pix) == ndim(pix) \in {2, 3}
Raised(r, exc) == r.kind = "raise" /\ r.exc = exc

\* C1: a call of write_gtiff with a 2-D or 3-D array, overwrite=False and a path
\* that exists ends with IOError "File exists", never opens (nor unlinks, nor
\* writes) the file, and leaves the file system exactly as it was.
C1_ExistingFileRefused ==
    [][(IsWrite(call') /\ ValidRank(call'.pix) /\ ~call'.overwrite
          /\ Exists(fs, call'.fname))
       => /\ Raised(result', "IOError: File exists")
          /\ \A i \in 1..Len(ops') : ops'[i].op = "exists"
          /\ fs' = fs]_vars

C1_Witness ==
    /\ IsWrite(call) /\ ValidRank(call.pix) /\ ~call.overwrite
    /\ Raised(result, "IOError: File exists")
    /\ Readable(fs, call.fname)

\* C2: a call of write_gtiff with an array that is neither 2-D nor 3-D raises
\* ValueError having performed no file-system or backend operation at all: the
\* file system is unchanged, also with overwrite=True on an existing path.
C2_BadRankRejectedFirst ==
    [][(IsWrite(call') /\ ~ValidRank(call'.pix))
       => /\ Raised(result', "ValueError")
          /\ Len(ops') = 0
          /\ fs' = fs]_vars

C2_Witness ==
    /\ IsWrite(call) /\ ndim(call.pix) = 4 /\ call.overwrite
    /\ Raised(result, "ValueError")
    /\ Readable(fs, call.fname)

\* the bands a file should hold after pix was written to it
HoldsOnly(file, pix) ==
    /\ file.complete
    /\ Len(file.bands) = (IF ndim(pix) = 2 THEN 1 ELSE pix.shape[1])
    /\ Concat(file.bands) = pix.vals

\* C3: with a valid array, overwrite=True and an existing path, the old file is
\* unlinked before the backend opens the path for writing; on success the file
\* holds the new array alone; on a later failure the path is left absent or with
\* the incomplete new dataset, never with the old file restored.
C3_OverwriteDeletesFirst ==
    [][(IsWrite(call') /\ ValidRank(call'.pix) /\ call'.overwrite
          /\ Exists(fs, call'.fname))
       => /\ \E i \in OpsNamed(ops', "unlink") :
                \A j \in OpsNamed(ops', "open_w") : i < j
          /\ OpsNamed(ops', "open_w") # {}
          /\ result'.kind = "return"
                => /\ Exists(fs', call'.fname)
                   /\ HoldsOnly(FileAt(fs', call'.fname), call'.pix)
          /\ result'.kind = "raise"
                => \/ ~Exists(fs', call'.fname)
                   \/ /\ ~FileAt(fs', call'.fname).complete
                      /\ \E j \in OpsNamed(ops', "open_w") :
                            FileAt(fs', call'.fname).opts = ops'[j].opts]_vars

C3_Witness ==
    /\ IsWrite(call) /\ ValidRank(call.pix) /\ call.overwrite
    /\ OpsNamed(ops, "unlink") # {}
    /\ result.kind = "raise"
    /\ ~Exists(fs, call.fname)

TilingKeys == {"tiled", "blockxsize", "blockysize"}

\* the tiling write_gtiff computes for an image of the array's width and height
ExpectedTiling(c) ==
    LET h == IF ndim(c.pix) = 2 THEN c.pix.shape[1] ELSE c.pix.shape[2]
        w == IF ndim(c.pix) = 2 THEN c.pix.shape[2] ELSE c.pix.shape[3]
    IN [blockxsize |-> Min(c.blocksize.val, w),
        blockysize |-> Min(c.blocksize.val, h)]

\* C8 as stated: whenever blocksize is not None, the options handed to the
\* backend have tiled=True, blockxsize=min(blocksize, w), blockysize=min(blocksize, h);
\* with blocksize None they carry no tiling option of the writer's.
C8_AsStated ==
    (IsWrite(call) /\ OpsNamed(ops, "open_w") # {})
    => \A j \in OpsNamed(ops, "open_w") :
         LET opts == ops[j].opts
         IN IF IsNone(call.blocksize)
            THEN (TilingKeys \cap DOMAIN opts) \subseteq DOMAIN call.extra_rio_opts
            ELSE /\ TilingKeys \subseteq DOMAIN opts
                 /\ opts.tiled = TRUE
                 /\ opts.blockxsize = ExpectedTiling(call).blockxsize
                 /\ opts.blockysize = ExpectedTiling(call).blockysize

\* C8 amended: each of tiled / blockxsize / blockysize that extra_rio_opts does
\* not name is True / min(blocksize, w) / min(blocksize, h) when blocksize is not
\* None and absent when it is None; each one extra_rio_opts names carries the
\* caller's value instead.
C8_TilingUnlessOverridden ==
    (IsWrite(call) /\ OpsNamed(ops, "open_w") # {})
    => \A j \in OpsNamed(ops, "open_w") :
         LET opts == ops[j].opts
             extra == call.extra_rio_opts
         IN /\ \A k \in TilingKeys \cap DOMAIN extra :
                  k \in DOMAIN opts /\ opts[k] = extra[k]
            /\ \A k \in TilingKeys \ DOMAIN extra :
                  IF IsNone(call.blocksize) THEN k \notin DOMAIN opts
                  ELSE /\ k \in DOMAIN opts
                       /\ k = "tiled" => opts[k] = TRUE
                       /\ k = "blockxsize"
                            => opts[k] = ExpectedTiling(call).blockxsize
                       /\ k = "blockysize"
                            => opts[k] = ExpectedTiling(call).blockysize

C8_Witness ==
    /\ IsWrite(call) /\ ~IsNone(call.blocksize)
    /\ DOMAIN call.extra_rio_opts = {}
    /\ \E j \in OpsNamed(ops, "open_w") :
          /\ ops[j].opts.blockxsize < call.blocksize.val
          /\ ops[j].opts.blockxsize > ops[j].opts.blockysize
    /\ result.kind = "return"

\* C10: rio_slurp_read(path), with no out_shape and no other keyword, right after
\* a successful write_gtiff(path, A) of a 2-D array A whose extra options
\* override none of width, height, count and dtype, returns A: the same values,
\* the same 2-D shape and the same dtype.
C10_RoundTrip ==
    [][(/\ IsWrite(call) /\ ndim(call.pix) = 2 /\ result.kind = "return"
        /\ DOMAIN call.extra_rio_opts
              \cap {"width", "height", "count", "dtype"} = {}
        /\ call'.fn = "rio_slurp_read" /\ call'.fname = call.fname
        /\ IsNone(call'.out_shape) /\ DOMAIN call'.kw = {})
       => /\ result'.kind = "return"
          /\ result'.value.data = call.pix]_vars

C10_Witness ==
    /\ call.fn = "rio_slurp_read" /\ IsNone(call.out_shape)
    /\ result.kind = "return"
    /\ result.value.data.shape = <<MaxDim, MaxDim>>
    /\ result.value.data.dtype = "int16"
    /\ result.value.data.vals[1] = 301

----------------------------------------------------------------------------
(* Properties of the readers *)

IsReproject(c) == c.fn = "rio_slurp_reproject"

\* the nodata the source file of the call declares
SourceNodata(c) == DatasetMeta(FileAt(fs, c.fname)).nodata

\* C4: the fill value rio_slurp_reproject uses is the caller's dst_nodata if that
\* is not None (an explicit 0 included), else the source file's nodata if that is
\* not None, else 0; np.full and the backend's dst_nodata get that same value.
C4_NodataResolutionOrder ==
    IsReproject(call)
    => /\ \A i \in OpsNamed(ops, "np_full") :
            /\ ~IsNone(call.dst_nodata)
                  => ops[i].fill_value = call.dst_nodata.val
            /\ (IsNone(call.dst_nodata) /\ ~IsNone(SourceNodata(call)))
                  => ops[i].fill_value = SourceNodata(call).val
            /\ (IsNone(call.dst_nodata) /\ IsNone(SourceNodata(call)))
                  => ops[i].fill_value = 0
            /\ \A j \in OpsNamed(ops, "reproject") :
                  ops[j].dst_nodata = ops[i].fill_value
       /\ result.kind = "return"
            => OpsNamed(ops, "np_full") # {} /\ OpsNamed(ops, "reproject") # {}

C4_Witness ==
    /\ IsReproject(call) /\ result.kind = "return"
    /\ ~IsNone(call.dst_nodata) /\ call.dst_nodata.val = 0
    /\ ~IsNone(SourceNodata(call)) /\ SourceNodata(call).val = 255
    /\ \E j \in OpsNamed(ops, "reproject") : ops[j].dst_nodata = 0

\* the pixels of the returned array the backend reprojection did not write
Unwritten(log, data) ==
    {i \in 1..Len(data.vals) :
        \A j \in OpsNamed(log, "reproject") : i \notin log[j].footprint}

\* C5 as stated: the array returned has the shape of the destination grid and
\* every pixel the backend did not write equals the resolved nodata value.
C5_AsStated ==
    (IsReproject(call) /\ result.kind = "return")
    => /\ result.value.data.shape = GeoBoxShape(call.gbox.val)
       /\ Len(result.value.data.vals) = call.gbox.val.height * call.gbox.val.width
       /\ \A j \in OpsNamed(ops, "np_full") :
             \A i \in Unwritten(ops, result.value.data) :
                result.value.data.vals[i] = ops[j].fill_value

\* C5 amended: the array returned has the shape of the destination grid and
\* every pixel the backend did not write equals the resolved nodata value
\* converted to the output dtype, which is the resolved nodata value itself
\* whenever the output dtype can represent it.
C5_UnwrittenPixelsAreNodataInDType ==
    (IsReproject(call) /\ result.kind = "return")
    => /\ result.value.data.shape = GeoBoxShape(call.gbox.val)
       /\ Len(result.value.data.vals) = call.gbox.val.height * call.gbox.val.width
       /\ OpsNamed(ops, "np_full") # {}
       /\ \A j \in OpsNamed(ops, "np_full") :
             \A i \in Unwritten(ops, result.value.data) :
                LET v == result.value.data.vals[i]
                    nodata == ops[j].fill_value
                    dtype == result.value.data.dtype
                IN /\ Representable(v, dtype)
                   /\ (v - nodata) % (IF dtype = "uint8" THEN 256 ELSE 65536) = 0
                   /\ Representable(nodata, dtype) => v = nodata

C5_Witness ==
    /\ IsReproject(call) /\ result.kind = "return"
    /\ Len(result.value.data.vals) > 1
    /\ Unwritten(ops, result.value.data) # {}
    /\ Unwritten(ops, result.value.data) # 1..Len(result.value.data.vals)
    /\ \E j \in OpsNamed(ops, "np_full") : ops[j].fill_value = 255

\* a grid descriptor agrees with a record's width, height, transform and crs
GridAgrees(gbox, meta) ==
    /\ gbox.type = "GeoBox"
    /\ gbox.val.width = meta.width
    /\ gbox.val.height = meta.height
    /\ gbox.val.transform = meta.transform
    /\ RioCRS(gbox.val.crs) = meta.crs

ReturnsMeta == result.kind = "return" /\ call.fn # "rio_geobox"

\* the reader a call went to
Reader(c, log) ==
    IF c.fn = "rio_slurp" THEN log[1].fn ELSE c.fn

\* C6 as stated: in every record returned by write_gtiff, rio_slurp_read,
\* rio_slurp_reproject and rio_slurp, a 'gbox' that is not None agrees with the
\* record's own width, height, transform and crs.
C6_AsStated ==
    ReturnsMeta
    => (~IsNone(result.value.meta.gbox)
          => GridAgrees(result.value.meta.gbox, result.value.meta))

\* C6 amended: that holds of the records of write_gtiff and rio_slurp_read (and
\* of rio_slurp when it reads plainly); in a record of rio_slurp_reproject (and
\* of rio_slurp when it reprojects) it is 'src_gbox' that agrees with the
\* record's width, height, transform and crs, while 'gbox' is the destination
\* grid the caller passed, whatever the source grid is.
C6_GridOfRecordOrOfCaller ==
    ReturnsMeta
    => LET meta == result.value.meta
       IN IF Reader(call, ops) = "rio_slurp_reproject"
          THEN /\ GridAgrees(meta.src_gbox, meta)
               /\ meta.gbox = (IF call.fn = "rio_slurp"
                               THEN SlurpGrid(call.args, call.kw)
                               ELSE call.gbox)
          ELSE /\ "src_gbox" \notin DOMAIN meta
               /\ GridAgrees(meta.gbox, meta)

C6_Witness ==
    /\ IsReproject(call) /\ result.kind = "return"
    /\ result.value.meta.gbox.val.width # result.value.meta.width
    /\ result.value.meta.src_gbox.val.width = result.value.meta.width
    /\ result.value.meta.height < result.value.meta.width

\* a grid descriptor is supplied, positionally or through the gbox keyword
GridSupplied(args, kw) ==
    \/ Len(args) > 0 /\ args[1].type = "GeoBox"
    \/ "gbox" \in DOMAIN kw /\ kw.gbox.type = "GeoBox"

\* C7 as stated: rio_slurp goes to rio_slurp_reproject exactly when a grid
\* descriptor is supplied, as first positional argument or as the gbox keyword,
\* and to rio_slurp_read in every other case.
C7_AsStated ==
    call.fn = "rio_slurp"
    => (ops[1].fn = "rio_slurp_reproject" <=> GridSupplied(call.args, call.kw))

\* C7 amended: rio_slurp goes to rio_slurp_reproject exactly when either there
\* is no positional argument and the keywords contain the key 'gbox' (whatever
\* its value, None included), or the first positional argument is a GeoBox; in
\* every other case, a non-grid first positional argument with a gbox keyword
\* included, it goes to rio_slurp_read; a call that returns used the grid, or the
\* out_shape, it was given.
C7_DispatchOnKeyOrType ==
    call.fn = "rio_slurp"
    => /\ ops[1].op = "call"
       /\ ops[1].fn \in {"rio_slurp_reproject", "rio_slurp_read"}
       /\ ops[1].fn = "rio_slurp_reproject"
            <=> \/ Len(call.args) = 0 /\ "gbox" \in DOMAIN call.kw
                \/ Len(call.args) > 0 /\ call.args[1].type = "GeoBox"
       /\ (result.kind = "return" /\ ops[1].fn = "rio_slurp_reproject")
            => /\ GridSupplied(call.args, call.kw)
               /\ result.value.data.shape
                     = GeoBoxShape(SlurpGrid(call.args, call.kw).val)
       /\ (result.kind = "return" /\ ops[1].fn = "rio_slurp_read"
              /\ Len(call.args) > 0)
            => LET shape == result.value.data.shape
               IN SubSeq(shape, Len(shape) - 1, Len(shape)) = call.args[1].val

C7_Witness ==
    /\ call.fn = "rio_slurp"
    /\ Len(call.args) = 0
    /\ "gbox" \in DOMAIN call.kw /\ IsNone(call.kw.gbox)
    /\ ops[1].fn = "rio_slurp_reproject"
    /\ Raised(result, "AttributeError")

====
